---- MODULE Spec2Model ----
(***************************************************************************)
(* DAOForge governance canister (src/DAOForge/src/index.ts).               *)
(*                                                                         *)
(* The canister keeps two collections, proposalStorage (id -> Proposal)    *)
(* and members (a set of addresses), and exposes four update calls         *)
(* (createProposal, voteOnProposal, finalizeProposal, addMember) and two   *)
(* queries (getAllProposals, getProposalById).  Every update call is       *)
(* synchronous code without an await, so a call runs to completion before  *)
(* the next one starts: one action per call.                               *)
(*                                                                         *)
(* Nullable fields are options: <<>> is null, <<x>> is the value x.        *)
(* Return strings are records [kind, id, detail] that keep the parts the   *)
(* template strings interpolate.                                           *)
(***************************************************************************)
EXTENDS Integers, Sequences, FiniteSets, TLC

\* ---- bounds of the model ------------------------------------------------
MaxVotes == 4          \* votes accepted per proposal before the model stops voting
MaxTime == 1           \* largest value of ic.time() the model explores
MaxThrows == 1         \* failures of the execution hook per proposal the model explores

\* ---- input domains ------------------------------------------------------
Ids == {1, 2}                      \* the uuids uuidv4() can hand out
Addresses == {"alice", "bob"}      \* proposer / voter / admin values
NewMembers == {"alice"}            \* newMember values: "bob" never joins the DAO
Titles == {"T"}
Descriptions == {"D"}
NoId == 0                          \* "this message interpolates no proposal id"

\* ---- nullable values ----------------------------------------------------
Null == <<>>
Some(x) == <<x>>

VARIABLES
    proposalStorage,   \* StableBTreeMap<string, Proposal>: function on the stored ids
    members,           \* Set<string>
    now,               \* ic.time()
    result,            \* return value of the latest update call
    voteCalls,         \* per id: number of voteOnProposal calls that registered a vote, by voteFor
    hookCalls,         \* per id: number of executeProposal invocations
    created,           \* the ids that createProposal calls have returned
    running            \* calls that have read their record (line 68 / 95) and not yet returned

vars == <<proposalStorage, members, now, result, voteCalls, hookCalls, created, running>>

\* ---- return strings -----------------------------------------------------
Msg(kind, id, detail) == [kind |-> kind, id |-> id, detail |-> detail]

CreateNotAMemberMsg == Msg("NotAMember", NoId, "create proposals")
VoteNotAMemberMsg == Msg("NotAMember", NoId, "vote on proposals")
CreatedMsg(proposalId, proposer) == Msg("Created", proposalId, proposer)
NotFoundMsg(proposalId) == Msg("NotFound", proposalId, "")
VotingClosedMsg(proposalId) == Msg("VotingClosed", proposalId, "")
VoteRegisteredMsg(proposalId, voteFor) ==
    Msg("VoteRegistered", proposalId, IF voteFor THEN "For" ELSE "Against")
AlreadyFinalizedMsg(proposalId) == Msg("AlreadyFinalized", proposalId, "")
QuorumNotMetMsg(proposalId, q) == Msg("QuorumNotMet", proposalId, ToString(q))
FinalizedMsg(proposalId, status) == Msg("Finalized", proposalId, status)
ExecutedMsg(proposalId) == Msg("Executed", proposalId, "")
MemberAddedMsg(newMember) == Msg("MemberAdded", NoId, newMember)

\* ---- store primitives ---------------------------------------------------
stored == DOMAIN proposalStorage

get(proposalId) ==
    IF proposalId \in stored THEN Some(proposalStorage[proposalId]) ELSE Null

insert_freshKey(store, proposalId, proposal) ==
    LET free == Ids \ DOMAIN store
        key == IF proposalId \in DOMAIN store /\ free # {}
               THEN CHOOSE k \in free : TRUE ELSE proposalId
    IN [i \in DOMAIN store \cup {key} |-> IF i = key THEN proposal ELSE store[i]]

insert_onlyThis(store, proposalId, proposal) == [i \in {proposalId} |-> proposal]

insert(store, proposalId, proposal) ==
    [i \in DOMAIN store \cup {proposalId} |->
        IF i = proposalId THEN proposal ELSE store[i]]

\* uuidv4(): an identifier that was never handed out before.  No record is
\* ever removed, so the identifiers handed out are the stored ones.
uuidv4_any == Ids

uuidv4 == Ids \ stored

getCurrentTime == now

\* ---- Proposal records ---------------------------------------------------
newProposal(proposalId, proposer, title, description, createdAt) ==
    [id |-> proposalId,
     title |-> title,
     description |-> description,
     proposer |-> proposer,
     votesFor |-> 0,
     votesAgainst |-> 0,
     status |-> "Pending",
     createdAt |-> createdAt,
     updatedAt |-> Null,
     executionResult |-> Null]

isPending_always(proposal) == TRUE

\* the test `proposal.status !== 'Pending'` of voteOnProposal and finalizeProposal
isPending(proposal) == proposal.status = "Pending"

updatedProposal_bothCounters(proposal, voteFor, t) ==
    [proposal EXCEPT !.votesFor = proposal.votesFor + 1,
                     !.votesAgainst = IF ~voteFor THEN proposal.votesAgainst + 1
                                      ELSE proposal.votesAgainst,
                     !.updatedAt = Some(t)]

updatedProposal_noTimestamp(proposal, voteFor, t) ==
    [proposal EXCEPT !.votesFor = IF voteFor THEN proposal.votesFor + 1
                                  ELSE proposal.votesFor,
                     !.votesAgainst = IF ~voteFor THEN proposal.votesAgainst + 1
                                      ELSE proposal.votesAgainst]

updatedProposal(proposal, voteFor, t) ==
    LET updatedVotesFor == IF voteFor THEN proposal.votesFor + 1 ELSE proposal.votesFor
        updatedVotesAgainst == IF ~voteFor THEN proposal.votesAgainst + 1
                               ELSE proposal.votesAgainst
    IN [proposal EXCEPT !.votesFor = updatedVotesFor,
                        !.votesAgainst = updatedVotesAgainst,
                        !.updatedAt = Some(t)]

quorum == 3
threshold == 2

quorumMissed_threshold(proposal) == proposal.votesFor + proposal.votesAgainst < threshold

quorumMissed(proposal) ==
    LET totalVotes == proposal.votesFor + proposal.votesAgainst
    IN totalVotes < quorum

decideStatus_stayPending(proposal) ==
    IF proposal.votesFor >= threshold THEN "Accepted" ELSE "Pending"

decideStatus_majority(proposal) ==
    IF proposal.votesFor > proposal.votesAgainst THEN "Accepted" ELSE "Rejected"

decideStatus(proposal) ==
    IF proposal.votesFor >= threshold THEN "Accepted" ELSE "Rejected"

executeProposal(proposalId) == ExecutedMsg(proposalId)

finalizedProposal_always(proposal, status, t, executionResult) ==
    [proposal EXCEPT !.status = status,
                     !.updatedAt = Some(t),
                     !.executionResult = Some(ExecutedMsg(proposal.id))]

finalizedProposal(proposal, status, t, executionResult) ==
    [proposal EXCEPT !.status = status,
                     !.updatedAt = Some(t),
                     !.executionResult = executionResult]

\* ---- queries ------------------------------------------------------------
getProposalById(proposalId) ==
    IF get(proposalId) = Null THEN NotFoundMsg(proposalId) ELSE proposalStorage[proposalId]

\* proposalStorage.values(): the records in key order
RECURSIVE values(_)
values(keys) ==
    IF keys = {} THEN << >>
    ELSE LET k == CHOOSE i \in keys : \A j \in keys : i <= j
         IN <<proposalStorage[k]>> \o values(keys \ {k})

getAllProposals == values(stored)

\* ---- initial state ------------------------------------------------------
Init ==
    /\ proposalStorage = << >>
    /\ members = {}
    /\ now = 0
    /\ result = Msg("None", NoId, "")
    /\ voteCalls = [i \in Ids |-> [for |-> 0, against |-> 0]]
    /\ hookCalls = [i \in Ids |-> 0]
    /\ created = {}
    /\ running = {}

\* ---- update calls -------------------------------------------------------
isMember_anyone(address) == TRUE

isMember(address) == address \in members

createProposal(proposer, title, description) ==
    /\ IF ~isMember(proposer)
       THEN /\ result' = CreateNotAMemberMsg
            /\ UNCHANGED <<proposalStorage, created>>
       ELSE \E proposalId \in uuidv4 :
            LET createdAt == getCurrentTime
            IN /\ proposalStorage' = insert(proposalStorage, proposalId,
                     newProposal(proposalId, proposer, title, description, createdAt))
               /\ result' = CreatedMsg(proposalId, proposer)
               /\ created' = created \cup {proposalId}
    /\ UNCHANGED <<members, now, voteCalls, hookCalls>>

voteOnProposal_lookupFirst(proposalId, voter, voteFor) ==
    /\ IF get(proposalId) = Null
       THEN /\ result' = NotFoundMsg(proposalId)
            /\ UNCHANGED <<proposalStorage, voteCalls>>
       ELSE LET proposal == proposalStorage[proposalId]
            IN IF ~isPending(proposal)
               THEN /\ result' = VotingClosedMsg(proposalId)
                    /\ UNCHANGED <<proposalStorage, voteCalls>>
               ELSE IF ~isMember(voter)
               THEN /\ result' = VoteNotAMemberMsg
                    /\ UNCHANGED <<proposalStorage, voteCalls>>
               ELSE /\ proposal.votesFor + proposal.votesAgainst < MaxVotes
                    /\ proposalStorage' = insert(proposalStorage, proposalId,
                           updatedProposal(proposal, voteFor, getCurrentTime))
                    /\ voteCalls' = [voteCalls EXCEPT
                           ![proposalId].for = @ + (IF voteFor THEN 1 ELSE 0),
                           ![proposalId].against = @ + (IF voteFor THEN 0 ELSE 1)]
                    /\ result' = VoteRegisteredMsg(proposalId, voteFor)
    /\ UNCHANGED <<members, now, hookCalls, created>>

voteOnProposal(proposalId, voter, voteFor) ==
    /\ IF ~isMember(voter)
       THEN /\ result' = VoteNotAMemberMsg
            /\ UNCHANGED <<proposalStorage, voteCalls>>
       ELSE IF get(proposalId) = Null
       THEN /\ result' = NotFoundMsg(proposalId)
            /\ UNCHANGED <<proposalStorage, voteCalls>>
       ELSE LET proposal == proposalStorage[proposalId]
            IN IF ~isPending(proposal)
               THEN /\ result' = VotingClosedMsg(proposalId)
                    /\ UNCHANGED <<proposalStorage, voteCalls>>
               ELSE /\ proposal.votesFor + proposal.votesAgainst < MaxVotes
                    /\ proposalStorage' = insert(proposalStorage, proposalId,
                           updatedProposal(proposal, voteFor, getCurrentTime))
                    /\ voteCalls' = [voteCalls EXCEPT
                           ![proposalId].for = @ + (IF voteFor THEN 1 ELSE 0),
                           ![proposalId].against = @ + (IF voteFor THEN 0 ELSE 1)]
                    /\ result' = VoteRegisteredMsg(proposalId, voteFor)
    /\ UNCHANGED <<members, now, hookCalls, created>>

finalizeProposal(proposalId) ==
    /\ IF get(proposalId) = Null
       THEN /\ result' = NotFoundMsg(proposalId)
            /\ UNCHANGED <<proposalStorage, hookCalls>>
       ELSE LET proposal == proposalStorage[proposalId]
            IN IF ~isPending(proposal)
               THEN /\ result' = AlreadyFinalizedMsg(proposalId)
                    /\ UNCHANGED <<proposalStorage, hookCalls>>
               ELSE IF quorumMissed(proposal)
               THEN /\ result' = QuorumNotMetMsg(proposalId, quorum)
                    /\ UNCHANGED <<proposalStorage, hookCalls>>
               ELSE LET status == decideStatus(proposal)
                        executionResult == IF status = "Accepted"
                                           THEN Some(executeProposal(proposalId))
                                           ELSE Null
                    IN /\ hookCalls' = [hookCalls EXCEPT ![proposalId] =
                              @ + (IF status = "Accepted" THEN 1 ELSE 0)]
                       /\ proposalStorage' = insert(proposalStorage, proposalId,
                              finalizedProposal(proposal, status, getCurrentTime,
                                                executionResult))
                       /\ result' = FinalizedMsg(proposalId, status)
    /\ UNCHANGED <<members, now, voteCalls, created>>

addMember_adminOnly(admin, newMember) ==
    /\ IF isMember(admin)
       THEN /\ members' = members \cup {newMember}
            /\ result' = MemberAddedMsg(newMember)
       ELSE /\ members' = members
            /\ result' = Msg("NotAnAdmin", NoId, admin)
    /\ UNCHANGED <<proposalStorage, now, voteCalls, hookCalls, created>>

addMember(admin, newMember) ==
    /\ members' = members \cup {newMember}
    /\ result' = MemberAddedMsg(newMember)
    /\ UNCHANGED <<proposalStorage, now, voteCalls, hookCalls, created>>

\* ic.time() moves forward between calls
Tick ==
    /\ now < MaxTime
    /\ now' = now + 1
    /\ UNCHANGED <<proposalStorage, members, result, voteCalls, hookCalls, created, running>>

\* One update call runs from its first line to its return before the next
\* one starts.
Next ==
    \/ \E proposer \in Addresses, title \in Titles, description \in Descriptions :
          createProposal(proposer, title, description) /\ UNCHANGED running
    \/ \E proposalId \in Ids, voter \in Addresses, voteFor \in BOOLEAN :
          voteOnProposal(proposalId, voter, voteFor) /\ UNCHANGED running
    \/ \E proposalId \in Ids : finalizeProposal(proposalId) /\ UNCHANGED running
    \/ \E admin \in Addresses, newMember \in NewMembers :
          addMember(admin, newMember) /\ UNCHANGED running
    \/ Tick

Spec == Init /\ [][Next]_vars

\* Callers that keep calling: for every id, a member's voteOnProposal and a
\* finalizeProposal are not postponed for ever.
MemberVote(proposalId) ==
    \E voter \in members, voteFor \in BOOLEAN :
        voteOnProposal(proposalId, voter, voteFor) /\ UNCHANGED running

Finalize(proposalId) == finalizeProposal(proposalId) /\ UNCHANGED running

FairSpec ==
    /\ Spec
    /\ \A proposalId \in Ids : WF_vars(MemberVote(proposalId))
    /\ \A proposalId \in Ids : WF_vars(Finalize(proposalId))

\* ---- a pluggable execution hook ------------------------------------------
\* The hook called at line 115 either returns its text or fails.
HookOutcomes == {"returns", "throws"}

ThrownMsg(proposalId) == Msg("Thrown", proposalId, "")

\* finalizeProposal reaches the call of the hook (line 115)
invokesHook(proposalId) ==
    /\ get(proposalId) # Null
    /\ isPending(proposalStorage[proposalId])
    /\ ~quorumMissed(proposalStorage[proposalId])
    /\ decideStatus(proposalStorage[proposalId]) = "Accepted"

\* finalizeProposal with a hook of the given outcome.  The call at line 115
\* stands in no try block: a hook that throws ends the handler there, before
\* the insert of line 124 and the return of line 125.
finalizeProposalWithHook(proposalId, outcome) ==
    IF outcome = "throws" /\ invokesHook(proposalId)
    THEN /\ hookCalls[proposalId] < MaxThrows
         /\ hookCalls' = [hookCalls EXCEPT ![proposalId] = @ + 1]
         /\ result' = ThrownMsg(proposalId)
         /\ UNCHANGED <<proposalStorage, members, now, voteCalls, created>>
    ELSE finalizeProposal(proposalId)

HookNext ==
    \/ \E proposer \in Addresses, title \in Titles, description \in Descriptions :
          createProposal(proposer, title, description) /\ UNCHANGED running
    \/ \E proposalId \in Ids, voter \in Addresses, voteFor \in BOOLEAN :
          voteOnProposal(proposalId, voter, voteFor) /\ UNCHANGED running
    \/ \E proposalId \in Ids, outcome \in HookOutcomes :
          finalizeProposalWithHook(proposalId, outcome) /\ UNCHANGED running
    \/ \E admin \in Addresses, newMember \in NewMembers :
          addMember(admin, newMember) /\ UNCHANGED running
    \/ Tick

HookSpec == Init /\ [][HookNext]_vars

\* ---- shorthands used by the properties ----------------------------------
total(proposal) == proposal.votesFor + proposal.votesAgainst
isFinal(proposal) == proposal.status \in {"Accepted", "Rejected"}

\* ---- calls split at their read of the record ----------------------------
\* voteOnProposal and finalizeProposal read the record into a local (line 68,
\* line 95) and write a copy of that local back (line 88, line 124).  The
\* handlers are synchronous functions without an await, so a call that has
\* started returns before the canister takes the next message.
idle_interleaved == TRUE

idle == running = {}

Ops == {"voteOnProposal", "finalizeProposal"}

\* the locals of a call after its read: the membership test of line 64 and
\* proposalOpt of line 68 / line 95
Activation(op, proposalId, voter, voteFor) ==
    [op |-> op, id |-> proposalId, voter |-> voter, voteFor |-> voteFor,
     member |-> isMember(voter), proposalOpt |-> get(proposalId)]

Begin(op, proposalId, voter, voteFor) ==
    /\ idle
    /\ LET a == Activation(op, proposalId, voter, voteFor)
       IN /\ (op = "voteOnProposal" /\ a.member /\ a.proposalOpt # Null)
                => total(a.proposalOpt[1]) < MaxVotes
          /\ running' = running \cup {a}
    /\ UNCHANGED <<proposalStorage, members, now, result, voteCalls, hookCalls, created>>

\* lines 64-66 and 69-89, on the locals
EndVote(a) ==
    /\ IF ~a.member
       THEN /\ result' = VoteNotAMemberMsg
            /\ UNCHANGED <<proposalStorage, voteCalls>>
       ELSE IF a.proposalOpt = Null
       THEN /\ result' = NotFoundMsg(a.id)
            /\ UNCHANGED <<proposalStorage, voteCalls>>
       ELSE LET proposal == a.proposalOpt[1]
            IN IF ~isPending(proposal)
               THEN /\ result' = VotingClosedMsg(a.id)
                    /\ UNCHANGED <<proposalStorage, voteCalls>>
               ELSE /\ proposalStorage' = insert(proposalStorage, a.id,
                           updatedProposal(proposal, a.voteFor, getCurrentTime))
                    /\ voteCalls' = [voteCalls EXCEPT
                           ![a.id].for = @ + (IF a.voteFor THEN 1 ELSE 0),
                           ![a.id].against = @ + (IF a.voteFor THEN 0 ELSE 1)]
                    /\ result' = VoteRegisteredMsg(a.id, a.voteFor)
    /\ UNCHANGED <<members, now, hookCalls, created>>

\* lines 96-125, on the locals
EndFinalize(a) ==
    /\ IF a.proposalOpt = Null
       THEN /\ result' = NotFoundMsg(a.id)
            /\ UNCHANGED <<proposalStorage, hookCalls>>
       ELSE LET proposal == a.proposalOpt[1]
            IN IF ~isPending(proposal)
               THEN /\ result' = AlreadyFinalizedMsg(a.id)
                    /\ UNCHANGED <<proposalStorage, hookCalls>>
               ELSE IF quorumMissed(proposal)
               THEN /\ result' = QuorumNotMetMsg(a.id, quorum)
                    /\ UNCHANGED <<proposalStorage, hookCalls>>
               ELSE LET status == decideStatus(proposal)
                        executionResult == IF status = "Accepted"
                                           THEN Some(executeProposal(a.id))
                                           ELSE Null
                    IN /\ hookCalls' = [hookCalls EXCEPT ![a.id] =
                              @ + (IF status = "Accepted" THEN 1 ELSE 0)]
                       /\ proposalStorage' = insert(proposalStorage, a.id,
                              finalizedProposal(proposal, status, getCurrentTime,
                                                executionResult))
                       /\ result' = FinalizedMsg(a.id, status)
    /\ UNCHANGED <<members, now, voteCalls, created>>

End(a) ==
    /\ a \in running
    /\ running' = running \ {a}
    /\ IF a.op = "voteOnProposal" THEN EndVote(a) ELSE EndFinalize(a)

ConcNext ==
    \/ \E proposer \in Addresses, title \in Titles, description \in Descriptions :
          idle /\ createProposal(proposer, title, description) /\ UNCHANGED running
    \/ \E admin \in Addresses, newMember \in NewMembers :
          idle /\ addMember(admin, newMember) /\ UNCHANGED running
    \/ \E proposalId \in Ids, voter \in Addresses, voteFor \in BOOLEAN :
          Begin("voteOnProposal", proposalId, voter, voteFor)
    \/ \E proposalId \in Ids : Begin("finalizeProposal", proposalId, "", FALSE)
    \/ \E a \in running : End(a)
    \/ Tick

ConcSpec == Init /\ [][ConcNext]_vars

\* C1: a proposal never leaves the store, a status that is Accepted or
\* Rejected is kept by every step, and the only status changes a step makes
\* are Pending -> Accepted and Pending -> Rejected.
C1_StatusMonotonic ==
    [][\A id \in stored :
          /\ id \in DOMAIN proposalStorage'
          /\ (isFinal(proposalStorage[id])
                => proposalStorage'[id].status = proposalStorage[id].status)
          /\ (proposalStorage'[id].status # proposalStorage[id].status
                => /\ proposalStorage[id].status = "Pending"
                   /\ isFinal(proposalStorage'[id]))]_vars

\* an Accepted and a Rejected proposal are stored and a vote on one of them
\* has just been turned away
C1_Witness ==
    /\ \E a \in stored : proposalStorage[a].status = "Accepted"
    /\ \E r \in stored : proposalStorage[r].status = "Rejected"
    /\ result.kind = "VotingClosed"

\* C2: for every stored proposal, executionResult is non-null exactly when
\* the status is Accepted.
C2_ExecutionResultIffAccepted ==
    \A id \in stored :
        (proposalStorage[id].executionResult # Null)
            <=> (proposalStorage[id].status = "Accepted")

\* one proposal was accepted (result stored) and another rejected (null kept)
C2_Witness ==
    /\ \E a \in stored : /\ proposalStorage[a].status = "Accepted"
                         /\ proposalStorage[a].executionResult = Some(ExecutedMsg(a))
    /\ \E r \in stored : /\ proposalStorage[r].status = "Rejected"
                         /\ proposalStorage[r].executionResult = Null

\* C3: votesFor / votesAgainst of every proposal equal the numbers of
\* voteOnProposal calls that registered a vote for / against it; a step that
\* changes a counter is a registered vote and adds exactly 1 to exactly one
\* counter; a vote by a member on a Pending proposal is registered whoever
\* voted before (no deduplication).
C3_CountersMatchCalls ==
    \A id \in stored :
        /\ proposalStorage[id].votesFor = voteCalls[id].for
        /\ proposalStorage[id].votesAgainst = voteCalls[id].against

C3_StepCountsOne ==
    /\ \A id \in stored :
          LET p == proposalStorage[id]
              q == proposalStorage'[id]
          IN \/ (q.votesFor = p.votesFor /\ q.votesAgainst = p.votesAgainst)
             \/ /\ result' = VoteRegisteredMsg(id, TRUE)
                /\ q.votesFor = p.votesFor + 1
                /\ q.votesAgainst = p.votesAgainst
             \/ /\ result' = VoteRegisteredMsg(id, FALSE)
                /\ q.votesFor = p.votesFor
                /\ q.votesAgainst = p.votesAgainst + 1
    /\ \A id \in stored, voter \in members, voteFor \in BOOLEAN :
          (proposalStorage[id].status = "Pending" /\ voteOnProposal(id, voter, voteFor))
             => /\ result' = VoteRegisteredMsg(id, voteFor)
                /\ total(proposalStorage'[id]) = total(proposalStorage[id]) + 1

C3_VotesCounted == []C3_CountersMatchCalls /\ [][C3_StepCountsOne]_vars

\* the only member voted twice, for and against, on one proposal and both
\* votes are in the tally
C3_Witness ==
    /\ Cardinality(members) = 1
    /\ \E id \in stored : /\ proposalStorage[id].votesFor = 1
                          /\ proposalStorage[id].votesAgainst = 1
                          /\ result.kind = "VoteRegistered"
                          /\ result.id = id

\* C4: finalizeProposal on a stored Pending proposal with fewer than 3 votes
\* returns QuorumNotMet, leaves the whole store as it was and does not run
\* the execution hook.
C4_QuorumNotMet ==
    [][\A id \in stored :
          (/\ finalizeProposal(id)
           /\ proposalStorage[id].status = "Pending"
           /\ total(proposalStorage[id]) < 3)
             => /\ result' = QuorumNotMetMsg(id, 3)
                /\ proposalStorage' = proposalStorage
                /\ hookCalls' = hookCalls]_vars

\* a proposal with two votes was refused finalization and is still Pending
C4_Witness ==
    \E id \in stored :
        /\ result = QuorumNotMetMsg(id, 3)
        /\ total(proposalStorage[id]) = 2
        /\ proposalStorage[id].status = "Pending"

\* C5: finalizeProposal on a stored Pending proposal with at least 3 votes
\* makes it Accepted (with an execution result) when votesFor >= 2 and
\* Rejected (with none) otherwise, whatever votesAgainst is.
C5_Decision ==
    [][\A id \in stored :
          (/\ finalizeProposal(id)
           /\ proposalStorage[id].status = "Pending"
           /\ total(proposalStorage[id]) >= 3)
             => LET want == IF proposalStorage[id].votesFor >= 2
                            THEN "Accepted" ELSE "Rejected"
                IN /\ proposalStorage'[id].status = want
                   /\ result' = FinalizedMsg(id, want)
                   /\ (proposalStorage'[id].executionResult # Null)
                         <=> (want = "Accepted")]_vars

\* 2 for and 2 against (no majority) was accepted; the other proposal, with
\* 1 for and 2 against, was rejected
C5_Witness ==
    \E a \in stored, r \in stored :
        /\ result = FinalizedMsg(a, "Accepted")
        /\ proposalStorage[a].votesFor = 2
        /\ proposalStorage[a].votesAgainst = 2
        /\ proposalStorage[a].status = "Accepted"
        /\ proposalStorage[r].votesFor = 1
        /\ proposalStorage[r].votesAgainst = 2
        /\ proposalStorage[r].status = "Rejected"

\* C6: finalizeProposal on a stored proposal that is Accepted or Rejected
\* returns AlreadyFinalized and leaves every record, hence every field of
\* that record, unchanged.
C6_AlreadyFinalized ==
    [][\A id \in stored :
          (finalizeProposal(id) /\ isFinal(proposalStorage[id]))
             => /\ result' = AlreadyFinalizedMsg(id)
                /\ proposalStorage' = proposalStorage
                /\ hookCalls' = hookCalls]_vars

\* a proposal finalized at time 0 was finalized again at time 1 and still
\* carries the first finalization's updatedAt
C6_Witness ==
    \E id \in stored :
        /\ result = AlreadyFinalizedMsg(id)
        /\ proposalStorage[id].status = "Accepted"
        /\ proposalStorage[id].updatedAt = Some(0)
        /\ now = 1

\* C7: a member's vote on an Accepted or Rejected proposal returns
\* VotingClosed and changes nothing; no step changes votesFor, votesAgainst
\* or updatedAt of a finalized proposal, and no step lowers a tally.
C7_VotingClosed ==
    [][/\ \A id \in stored, voter \in members, voteFor \in BOOLEAN :
             (voteOnProposal(id, voter, voteFor) /\ isFinal(proposalStorage[id]))
                => /\ result' = VotingClosedMsg(id)
                   /\ proposalStorage' = proposalStorage
       /\ \A id \in stored :
             /\ proposalStorage'[id].votesFor >= proposalStorage[id].votesFor
             /\ proposalStorage'[id].votesAgainst >= proposalStorage[id].votesAgainst
             /\ isFinal(proposalStorage[id])
                   => /\ proposalStorage'[id].votesFor = proposalStorage[id].votesFor
                      /\ proposalStorage'[id].votesAgainst = proposalStorage[id].votesAgainst
                      /\ proposalStorage'[id].updatedAt = proposalStorage[id].updatedAt]_vars

\* a vote arrived at time 1 for a proposal rejected at time 0 with three
\* votes: it was turned away and tally and updatedAt are those of time 0
C7_Witness ==
    \E id \in stored :
        /\ result = VotingClosedMsg(id)
        /\ proposalStorage[id].status = "Rejected"
        /\ total(proposalStorage[id]) = 3
        /\ proposalStorage[id].updatedAt = Some(0)
        /\ now = 1

\* C8: createProposal by an address that is not a member returns NotAMember
\* and leaves the store (its ids and its records) unchanged.
C8_CreateNotAMember ==
    [][\A proposer \in Addresses \ members, title \in Titles, description \in Descriptions :
          createProposal(proposer, title, description)
             => /\ result' = CreateNotAMemberMsg
                /\ proposalStorage' = proposalStorage
                /\ Cardinality(DOMAIN proposalStorage') = Cardinality(stored)]_vars

\* a non-member was refused while a member's proposal is in the store
C8_Witness ==
    /\ result = CreateNotAMemberMsg
    /\ Cardinality(stored) = 1
    /\ members # {}

\* C9: voteOnProposal by an address that is not a member returns NotAMember
\* and changes no record, for every proposal id: stored or not, Pending or
\* finalized.
C9_VoteNotAMember ==
    [][\A id \in Ids, voter \in Addresses \ members, voteFor \in BOOLEAN :
          voteOnProposal(id, voter, voteFor)
             => /\ result' = VoteNotAMemberMsg
                /\ proposalStorage' = proposalStorage
                /\ voteCalls' = voteCalls]_vars

\* a non-member's vote was refused as NotAMember when one id is finalized
\* and the other is not in the store
C9_Witness ==
    /\ result = VoteNotAMemberMsg
    /\ \E id \in stored : isFinal(proposalStorage[id])
    /\ \A id \in stored : isFinal(proposalStorage[id])
    /\ stored # Ids

\* C10: createProposal by a member stores exactly one record, under an id
\* that was not in the store, with the initial field values and the caller's
\* proposer; getProposalById of the returned id gives that record; the
\* records already stored are unchanged.
C10_CreateFresh ==
    [][\A proposer \in members, title \in Titles, description \in Descriptions :
          createProposal(proposer, title, description)
             => \E id \in Ids \ stored :
                   /\ DOMAIN proposalStorage' = stored \cup {id}
                   /\ result' = CreatedMsg(id, proposer)
                   /\ proposalStorage'[id] =
                         [id |-> id, title |-> title, description |-> description,
                          proposer |-> proposer, votesFor |-> 0, votesAgainst |-> 0,
                          status |-> "Pending", createdAt |-> now,
                          updatedAt |-> Null, executionResult |-> Null]
                   /\ result'.id = id
                   /\ getProposalById(id)' = proposalStorage'[id]
                   /\ \A other \in stored : proposalStorage'[other] = proposalStorage[other]]_vars

\* a second proposal has just been created next to one that already has votes
C10_Witness ==
    \E id \in stored, other \in stored :
        /\ result.kind = "Created"
        /\ result.id = id
        /\ other # id
        /\ proposalStorage[id].status = "Pending"
        /\ total(proposalStorage[id]) = 0
        /\ total(proposalStorage[other]) > 0

\* C11: the ids of the records getAllProposals returns are exactly the ids
\* that successful createProposal calls have returned, one record per id:
\* nothing is removed, and no other call stores a record under a new id.
C11_AllProposalsAreCreated ==
    /\ {getAllProposals[i].id : i \in 1..Len(getAllProposals)} = created
    /\ Len(getAllProposals) = Cardinality(created)

\* two proposals were created; after a finalization and a further vote on
\* the other one, getAllProposals still lists exactly these two
C11_Witness ==
    /\ created = Ids
    /\ Len(getAllProposals) = 2
    /\ \E id \in stored : isFinal(proposalStorage[id])
    /\ result.kind = "VoteRegistered"

\* C14: executeProposal runs only in a finalizeProposal call that takes a
\* Pending proposal to Accepted, and at most once per id: its invocation
\* count is 1 for an Accepted proposal and 0 for every other id, and a step
\* that raises the count is that finalization.
C14_HookCount ==
    \A id \in Ids :
        hookCalls[id] = IF id \in stored /\ proposalStorage[id].status = "Accepted"
                        THEN 1 ELSE 0

C14_HookStep ==
    \A id \in Ids :
        hookCalls'[id] # hookCalls[id]
           => /\ id \in stored
              /\ proposalStorage[id].status = "Pending"
              /\ proposalStorage'[id].status = "Accepted"
              /\ result' = FinalizedMsg(id, "Accepted")
              /\ hookCalls'[id] = hookCalls[id] + 1

C14_HookOnlyOnAcceptance == []C14_HookCount /\ [][C14_HookStep]_vars

\* an Accepted proposal was finalized a second time and its hook has still
\* run once; the Rejected proposal's hook never ran
C14_Witness ==
    \E a \in stored, r \in stored :
        /\ result = AlreadyFinalizedMsg(a)
        /\ proposalStorage[a].status = "Accepted"
        /\ hookCalls[a] = 1
        /\ proposalStorage[r].status = "Rejected"
        /\ hookCalls[r] = 0

\* C16: updatedAt is null exactly while no vote was registered for the
\* proposal and it was not finalized; a registered vote or a finalization
\* sets it to the clock value of that call and no other step changes it;
\* id, title, description, proposer and createdAt never change.
C16_NullUntilMutated ==
    \A id \in stored :
        (proposalStorage[id].updatedAt = Null)
           <=> /\ voteCalls[id].for + voteCalls[id].against = 0
               /\ proposalStorage[id].status = "Pending"

C16_UpdatedAtStep ==
    /\ \A id \in stored :
          LET p == proposalStorage[id]
              q == proposalStorage'[id]
          IN /\ q.id = p.id
             /\ q.title = p.title
             /\ q.description = p.description
             /\ q.proposer = p.proposer
             /\ q.createdAt = p.createdAt
             /\ q # p => q.updatedAt = Some(now)
             /\ q.updatedAt # p.updatedAt
                   => /\ result'.kind \in {"VoteRegistered", "Finalized"}
                      /\ result'.id = id
    /\ \A id \in stored, voter \in members, voteFor \in BOOLEAN :
          (proposalStorage[id].status = "Pending" /\ voteOnProposal(id, voter, voteFor))
             => proposalStorage'[id].updatedAt = Some(now)
    /\ \A id \in stored :
          (/\ proposalStorage[id].status = "Pending"
           /\ total(proposalStorage[id]) >= 3
           /\ finalizeProposal(id))
             => proposalStorage'[id].updatedAt = Some(now)

C16_Timestamps == []C16_NullUntilMutated /\ [][C16_UpdatedAtStep]_vars

\* a proposal created at time 0 was finalized at time 1; the other proposal
\* has no vote yet and its updatedAt is still null
C16_Witness ==
    \E id \in stored, other \in stored :
        /\ result = FinalizedMsg(id, "Rejected")
        /\ proposalStorage[id].createdAt = 0
        /\ proposalStorage[id].updatedAt = Some(1)
        /\ proposalStorage[other].updatedAt = Null

\* C17: addMember(admin, newMember) succeeds for every admin, makes the
\* member set members \cup {newMember} (so it is unchanged when newMember
\* was in it) and changes no proposal; no step removes a member.
C17_AddMember ==
    [][/\ members \subseteq members'
       /\ \A admin \in Addresses, newMember \in NewMembers :
             addMember(admin, newMember)
                => /\ members' = members \cup {newMember}
                   /\ (newMember \in members => members' = members)
                   /\ result' = MemberAddedMsg(newMember)
                   /\ proposalStorage' = proposalStorage]_vars

\* alice was added again after she had created a proposal as a member
C17_Witness ==
    /\ result = MemberAddedMsg("alice")
    /\ members = {"alice"}
    /\ \E id \in stored : proposalStorage[id].proposer = "alice"

\* C18: a finalized proposal has at least 3 votes; an Accepted one has
\* votesFor >= 2; a Rejected one has votesFor <= 1 and votesAgainst >= 2.
C18_FinalTallies ==
    \A id \in stored :
        LET p == proposalStorage[id]
        IN /\ isFinal(p) => total(p) >= 3
           /\ p.status = "Accepted" => p.votesFor >= 2
           /\ p.status = "Rejected" => (p.votesFor <= 1 /\ p.votesAgainst >= 2)

\* one proposal accepted on 2 for / 1 against, the other rejected on 0 / 3
C18_Witness ==
    \E a \in stored, r \in stored :
        /\ proposalStorage[a].status = "Accepted"
        /\ proposalStorage[a].votesFor = 2
        /\ proposalStorage[a].votesAgainst = 1
        /\ proposalStorage[r].status = "Rejected"
        /\ proposalStorage[r].votesFor = 0
        /\ proposalStorage[r].votesAgainst = 3

\* C19: voteOnProposal and finalizeProposal on one id leave the records
\* under every other id, the set of stored ids and the member set unchanged;
\* createProposal leaves every existing record and the member set
\* unchanged; every record's id field is the key it is stored under.
C19_IdIsKey == \A id \in stored : proposalStorage[id].id = id

C19_FrameStep ==
    /\ \A id \in Ids :
          (\/ \E voter \in Addresses, voteFor \in BOOLEAN :
                 voteOnProposal(id, voter, voteFor)
           \/ finalizeProposal(id))
             => /\ DOMAIN proposalStorage' = stored
                /\ \A other \in stored \ {id} :
                      proposalStorage'[other] = proposalStorage[other]
                /\ members' = members
    /\ \A proposer \in Addresses, title \in Titles, description \in Descriptions :
          createProposal(proposer, title, description)
             => /\ stored \subseteq DOMAIN proposalStorage'
                /\ \A other \in stored : proposalStorage'[other] = proposalStorage[other]
                /\ members' = members

C19_Frame == []C19_IdIsKey /\ [][C19_FrameStep]_vars

\* one proposal has just been accepted while the other still shows its
\* single vote and is Pending
C19_Witness ==
    \E a \in stored, b \in stored :
        /\ result = FinalizedMsg(a, "Accepted")
        /\ proposalStorage[a].id = a
        /\ proposalStorage[b].id = b
        /\ proposalStorage[b].status = "Pending"
        /\ total(proposalStorage[b]) = 1

\* C20: the proposer of every stored proposal is a member; finalizeProposal
\* leaves the member set alone and its return value is fixed by the named
\* record alone (absent, finalized, below quorum, or decided).
C20_ProposerIsMember ==
    \A id \in stored : proposalStorage[id].proposer \in members

C20_FinalizeStep ==
    \A id \in Ids :
        finalizeProposal(id)
           => /\ members' = members
              /\ result' =
                    IF id \notin stored THEN NotFoundMsg(id)
                    ELSE IF isFinal(proposalStorage[id]) THEN AlreadyFinalizedMsg(id)
                    ELSE IF total(proposalStorage[id]) < 3 THEN QuorumNotMetMsg(id, 3)
                    ELSE FinalizedMsg(id, IF proposalStorage[id].votesFor >= 2
                                          THEN "Accepted" ELSE "Rejected")

C20_MembershipAndFinalize == []C20_ProposerIsMember /\ [][C20_FinalizeStep]_vars

\* alice's proposal, with one vote for and three against, was rejected by a
\* finalizeProposal call while bob is no member
C20_Witness ==
    \E id \in stored :
        /\ result = FinalizedMsg(id, "Rejected")
        /\ proposalStorage[id].proposer \in members
        /\ members # Addresses
        /\ proposalStorage[id].votesFor = 1
        /\ proposalStorage[id].votesAgainst = 3

\* C15: when members keep voting and finalizeProposal keeps being called,
\* every stored proposal is eventually Accepted or Rejected; in particular a
\* proposal whose finalization was refused with QuorumNotMet is finalized
\* later.
C15_EventuallyFinal ==
    \A id \in Ids :
        /\ (id \in stored) ~> (id \in stored /\ isFinal(proposalStorage[id]))
        /\ (result = QuorumNotMetMsg(id, 3))
              ~> (id \in stored /\ result = FinalizedMsg(id, proposalStorage[id].status))

\* finalization of a proposal without votes has just been refused
C15_Witness ==
    \E id \in stored :
        /\ result = QuorumNotMetMsg(id, 3)
        /\ proposalStorage[id].status = "Pending"
        /\ total(proposalStorage[id]) = 0
        /\ members # {}

C12_NoLostUpdate ==
    \A id \in stored :
        /\ proposalStorage[id].votesFor = voteCalls[id].for
        /\ proposalStorage[id].votesAgainst = voteCalls[id].against

C12_SerialStep ==
    /\ \A id \in stored :
           isFinal(proposalStorage[id])
               => proposalStorage'[id].status = proposalStorage[id].status
    /\ \A a \in running :
           End(a) => IF a.op = "voteOnProposal"
                     THEN voteOnProposal(a.id, a.voter, a.voteFor)
                     ELSE finalizeProposal(a.id)

C12_Linearizable == []C12_NoLostUpdate /\ [][C12_SerialStep]_vars

\* a second vote has read the record that already holds the first vote
C12_Witness ==
    \E a \in running :
        /\ a.op = "voteOnProposal"
        /\ a.member
        /\ a.proposalOpt # Null
        /\ total(a.proposalOpt[1]) = 1
        /\ result = VoteRegisteredMsg(a.id, TRUE)

====
